---- MODULE Spec2Model ----
(***************************************************************************)
(* Model of the toggle generator (generate.py).                            *)
(*                                                                         *)
(* Text is a sequence of tokens (strings); a token is never split by the   *)
(* string operations of the generator, so str.replace, str.split("\n"),    *)
(* re.sub and re.findall are modelled on tokens.  "\n" is the line feed    *)
(* token, " " and "    " are the blank tokens.                             *)
(*                                                                         *)
(* A YAML value is a tagged record: None, a string, or a list of strings.  *)
(* A YAML record (a Python dict) is a function from its keys to values.    *)
(* An ordered dict keyed by NAME / CHAR_ID is the sequence of its values   *)
(* in insertion order.                                                     *)
(***************************************************************************)
EXTENDS Integers, Sequences, FiniteSets, TLC

VARIABLES
    defaults_data,  \* the list read from yaml/defaults.yaml
    data,           \* the list read from yaml/char_ids.yaml
    defaults,       \* the option table of main
    char_ids,       \* the characterization table of read_char_ids / main
    char_n,         \* the position of main's loop on char_ids
    pc,             \* the position of main
    err,            \* the exception that ended main
    files,          \* the files on disk: path -> content
    run,            \* the number of the run of main
    prev_files,     \* the files as the previous run left them
    prev_data,      \* the char_ids.yaml list of the previous run
    fmt_args,       \* the arguments of the formatter calls
    fmt_ret         \* what each formatter call returned

inputs == <<defaults_data, data>>
history == <<run, prev_files, prev_data>>
formatter == <<fmt_args, fmt_ret>>

vars == <<defaults_data, data, defaults, char_ids, char_n, pc, err, files, run,
          prev_files, prev_data, fmt_args, fmt_ret>>

(***************************************************************************)
(* Bounds of the model.                                                    *)
(***************************************************************************)
MaxProfiles == 3
MaxOptions == 2
MaxCharIds == 2
MaxRuns == 2

(***************************************************************************)
(* Values.                                                                 *)
(***************************************************************************)
None == [k |-> "none", s |-> "", l |-> <<>>]
Str(s) == [k |-> "str", s |-> s, l |-> <<>>]
List(l) == [k |-> "list", s |-> "", l |-> l]

\* An optional template (H, C, TEST_ASSIGN): None or a text.
NoCode == [none |-> TRUE, text |-> <<>>]
Code(t) == [none |-> FALSE, text |-> t]

\* The char_id argument of the formatters: None or a resolved profile.
NoCharId == [none |-> TRUE, d |-> <<>>]
CharId(d) == [none |-> FALSE, d |-> d]

\* The outcome of a call: the returned text, or the exception raised.
Ok(t) == [err |-> "", text |-> t]
Raise(e) == [err |-> e, text |-> <<>>]

is_empty(code) == code.none

(***************************************************************************)
(* Text helpers.                                                           *)
(***************************************************************************)
\* The concatenation of the texts of a sequence.
RECURSIVE Flatten(_)
Flatten(ss) ==
    IF ss = <<>> THEN <<>>
    ELSE IF Len(ss) = 1 THEN ss[1]
    ELSE LET half == Len(ss) \div 2
         IN  Flatten(SubSeq(ss, 1, half))
             \o Flatten(SubSeq(ss, half + 1, Len(ss)))

\* The tokens of t at the positions that satisfy Keep, in order.
Filter(t, Keep(_)) ==
    LET at == SelectSeq([n \in 1..Len(t) |-> n], Keep)
    IN  [k \in 1..Len(at) |-> t[at[k]]]

\* str.replace(tok, s) for a one-token pattern; an empty s leaves no token.
Replace(code, tok, s) ==
    LET NotEmpty(x) == x # ""
    IN  SelectSeq([n \in 1..Len(code) |->
                      IF code[n] = tok THEN s ELSE code[n]], NotEmpty)

\* str.replace(a + b, "") for a two-token pattern of distinct tokens.
ReplacePair(code, a, b) ==
    LET StartsAt(n) ==
            n >= 1 /\ n < Len(code) /\ code[n] = a /\ code[n + 1] = b
        Keep(n) == ~StartsAt(n) /\ ~StartsAt(n - 1)
    IN  Filter(code, Keep)

decl_dict ==
    [BOOL |-> <<"bool", " ", "@NAME@">>,
     CHAR |-> <<"char", " ", "@NAME@">>,
     INT8 |-> <<"int8_t", " ", "@NAME@">>,
     INT16 |-> <<"int16_t", " ", "@NAME@">>,
     INT32 |-> <<"int32_t", " ", "@NAME@">>,
     INT64 |-> <<"int64_t", " ", "@NAME@">>,
     INTPTR |-> <<"intptr_t", " ", "@NAME@">>,
     UINT8 |-> <<"uint8_t", " ", "@NAME@">>,
     UINT16 |-> <<"uint16_t", " ", "@NAME@">>,
     UINT32 |-> <<"uint32_t", " ", "@NAME@">>,
     UINT64 |-> <<"uint64_t", " ", "@NAME@">>,
     UINTPTR |-> <<"uintptr_t", " ", "@NAME@">>,
     FLOAT |-> <<"float", " ", "@NAME@">>,
     DOUBLE |-> <<"double", " ", "@NAME@">>,
     CHAR_ARRAY |-> <<"char", " ", "@NAME@", "[]">>]

test_assign_dict ==
    [CHAR_ARRAY |->
        <<"{", " ", "/*", " ", "TOP_C:", " ", "#include <string.h>", " ",
          "*/", "\n",
          "    ", "const", " ", "char", " ", "@NAME@", "_orig[]", " ", "=",
          " ", "@VALUE@", ";", "\n",
          "    ", "strncpy(", "@NAME@", ",", " ", "@NAME@", "_orig", ",",
          " ", "sizeof(", "@NAME@", "));", "\n",
          "}", "\n">>]

\* int(s) on the strings the model uses; any other string is a ValueError.
IntStrings == {"0", "1", "2"}
IntOf(s) == CASE s = "0" -> 0 [] s = "1" -> 1 [] s = "2" -> 2

\* is_testing raises when int() does.
is_testing_raises(char_id) ==
    /\ ~char_id.none
    /\ "TESTING" \in DOMAIN char_id.d
    /\ char_id.d["TESTING"] # Str("")
    /\ ~(char_id.d["TESTING"].k = "str"
         /\ char_id.d["TESTING"].s \in IntStrings)

is_testing(char_id) ==
    IF char_id.none \/ "TESTING" \notin DOMAIN char_id.d
       \/ char_id.d["TESTING"] = Str("")
    THEN FALSE
    ELSE IntOf(char_id.d["TESTING"].s) # 0

\* get_value without the test for an empty entry.
get_value_keeps_empty(name, dflt, char_id) ==
    IF char_id.none \/ name \notin DOMAIN char_id.d
    THEN dflt.DEFAULT
    ELSE char_id.d[name].s

get_value(name, dflt, char_id) ==
    IF char_id.none \/ name \notin DOMAIN char_id.d
       \/ char_id.d[name] = Str("")
    THEN dflt.DEFAULT
    ELSE char_id.d[name].s

\* TRUE iff the assertion of the function fails.
error_if_value_option_is_set_on_characterization_file(name, dflt, char_id) ==
    IF char_id.none THEN FALSE
    ELSE /\ Len(dflt.TYPE) >= 1
         /\ dflt.TYPE[1] = "VALUE"
         /\ name \in DOMAIN char_id.d

\* Lines 618-651: the default code of one (base, format) pair.
GenerateDefault(base, decl, test_assign, format, testing, testing_changes) ==
    IF base = "MACRO"
    THEN IF testing /\ testing_changes
         THEN CASE format = "decl" -> <<"extern", " ">> \o decl \o <<";">>
                [] format = "def" -> decl \o <<" ", "=", " ", "@VALUE@", ";">>
                [] format = "assign" -> test_assign
         ELSE CASE format = "decl" ->
                       <<"#define", " ", "@NAME@", " ", "@VALUE@">>
                [] format = "def" -> <<>>
                [] format = "assign" -> <<>>
    ELSE IF base = "CONST"
    THEN IF format = "decl"
         THEN <<"extern", " ", "@CONST@", " ">> \o decl \o <<";">>
         ELSE IF format = "def"
         THEN <<"@CONST@", " ">> \o decl \o <<" ", "=", " ", "@VALUE@", ";">>
         ELSE IF testing /\ testing_changes
         THEN (IF format = "assign" THEN test_assign ELSE <<>>)
         ELSE <<>>
    ELSE \* base = "VAR"
         CASE format = "decl" -> <<"extern", " ">> \o decl \o <<";">>
           [] format = "def" -> decl \o <<" ", "=", " ", "@VALUE@", ";">>
           [] format = "assign" -> test_assign

\* Lines 653-664: update values on the code.
UpdateValues(code, name, value, testing, testing_changes) ==
    LET c1 == Replace(code, "@NAME@", name)
        c2 == Replace(c1, "@VALUE@", value)
        const == IF testing /\ testing_changes THEN "" ELSE "const"
    IN  IF const = ""
        THEN ReplacePair(ReplacePair(c2, "@CONST@", " "), " ", "@CONST@")
        ELSE Replace(c2, "@CONST@", const)

\* TestingChanges without the TYPE = VALUE case.
TestingChanges_ignores_type(typ, decl) ==
    /\ decl # <<"MACRO">>
    /\ decl # <<"CUSTOM">>

\* TestingChanges without the DECL = CUSTOM case.
TestingChanges_ignores_custom(typ, decl) ==
    /\ typ = <<"OPTION">>
    /\ decl # <<"MACRO">>

\* Lines 560-576: does testing change the storage of the option.
TestingChanges(typ, decl) ==
    /\ typ = <<"OPTION">>
    /\ decl # <<"MACRO">>
    /\ decl # <<"CUSTOM">>

format_ch_def_decl(code, dflt, char_id, format) ==
    LET typ == dflt.TYPE
        decl == dflt.DECL
        name == dflt.NAME
        value == get_value(name, dflt, char_id)
    IN
    IF is_testing_raises(char_id) THEN Raise("ValueError")
    ELSE IF error_if_value_option_is_set_on_characterization_file(
                name, dflt, char_id)
    THEN Raise("AssertionError")
    ELSE IF typ # <<"VALUE">> /\ typ # <<"OPTION">>
    THEN Raise("NotImplementedError")
    ELSE
    LET testing == is_testing(char_id)
        testing_changes == TestingChanges(typ, decl)
    IN
    IF is_empty(code)
    THEN IF decl = <<"MACRO">>
         THEN \* test_assign is unbound here and never read
              Ok(UpdateValues(
                   GenerateDefault("MACRO", <<"MACRO">>, <<>>, format,
                                   testing, testing_changes),
                   name, value, testing, testing_changes))
         ELSE IF decl = <<"CUSTOM">>
         THEN Ok(<<>>)
         ELSE IF Len(decl) = 2 /\ decl[1] \in {"MACRO", "CONST", "VAR"}
         THEN IF decl[2] \in DOMAIN decl_dict
              THEN LET test_assign ==
                           IF decl[2] \in DOMAIN test_assign_dict
                           THEN test_assign_dict[decl[2]]
                           ELSE <<"@NAME@", " ", "=", " ", "@VALUE@", ";">>
                   IN  Ok(UpdateValues(
                            GenerateDefault(decl[1], decl_dict[decl[2]],
                                            test_assign, format, testing,
                                            testing_changes),
                            name, value, testing, testing_changes))
              ELSE Raise("NotImplementedError")
         ELSE Raise("NotImplementedError")
    ELSE Ok(UpdateValues(code.text, name, value, testing, testing_changes))

format_h_declaration(dflt, char_id) ==
    format_ch_def_decl(dflt.H, dflt, char_id, "decl")

format_c_definition(dflt, char_id) ==
    format_ch_def_decl(dflt.C, dflt, char_id, "def")

format_c_assignment(dflt, char_id) ==
    format_ch_def_decl(dflt.TEST_ASSIGN, dflt, char_id, "assign")

(***************************************************************************)
(* The formatters as operations: one call per format on one option and one *)
(* char_id argument, each recording what the call returned or raised.      *)
(***************************************************************************)
NotCalled == [called |-> FALSE, err |-> "", text |-> <<>>]
Called(r) == [called |-> TRUE, err |-> r.err, text |-> r.text]

\* dict.update.
Update(d1, d2) ==
    [key \in DOMAIN d1 \cup DOMAIN d2 |->
        IF key \in DOMAIN d2 THEN d2[key] ELSE d1[key]]

HTemplate == <<"extern", " ", "@CONST@", " ", "int", " ", "@NAME@", ";">>
CTemplate ==
    <<"@CONST@", " ", "int", " ", "@NAME@", " ", "=", " ", "@VALUE@", ";">>
TestAssignTemplate == <<"reset_", "@NAME@", "(", "@VALUE@", ");">>

EmitTypes == {<<"VALUE">>, <<"OPTION">>, <<"VALUE", "S">>}
EmitDecls ==
    {<<"MACRO">>, <<"CUSTOM">>, <<"MACRO", "UINT8">>,
     <<"MACRO", "CHAR_ARRAY">>, <<"CONST", "UINT8">>, <<"VAR", "INT32">>,
     <<"MACRO", "FOO">>, <<"BOGUS">>, <<"ENUM", "UINT8">>}

EmitOptions ==
    {[NAME |-> "FOO", DEFAULT |-> "5", TYPE |-> t, DECL |-> d,
      BRIEF |-> "brief", DESCRIPTION |-> None,
      H |-> h, C |-> c, TEST_ASSIGN |-> a] :
        t \in EmitTypes, d \in EmitDecls,
        h \in {NoCode, Code(HTemplate)}, c \in {NoCode, Code(CTemplate)},
        a \in {NoCode, Code(TestAssignTemplate)}}

BareProfile(id) ==
    [CHAR_ID |-> Str(id), BRIEF |-> Str("brief"), DESCRIPTION |-> None,
     BASED_ON |-> None]

OptionalKey(key, values) ==
    {[x \in {} |-> None]} \cup {[x \in {key} |-> Str(v)] : v \in values}

EmitCharIds ==
    {NoCharId} \cup
    {CharId(Update(Update(BareProfile("P"), t), o)) :
        t \in OptionalKey("TESTING", {"", "0", "1", "yes"}),
        o \in OptionalKey("FOO", {"", "7"})}

InitEmit ==
    /\ defaults_data = <<>>
    /\ defaults = <<>>
    /\ char_n = 0
    /\ data = <<>>
    /\ char_ids = <<>>
    /\ pc = "emit"
    /\ err = ""
    /\ files = [f \in {} |-> <<>>]
    /\ run = 1
    /\ prev_files = [f \in {} |-> <<>>]
    /\ prev_data = <<>>
    /\ fmt_args \in [dflt : EmitOptions, char_id : EmitCharIds]
    /\ fmt_ret = [decl |-> NotCalled, def |-> NotCalled, assign |-> NotCalled]

FormatHDeclaration ==
    /\ pc = "emit"
    /\ ~fmt_ret.decl.called
    /\ fmt_ret' = [fmt_ret EXCEPT !.decl =
            Called(format_h_declaration(fmt_args.dflt, fmt_args.char_id))]
    /\ UNCHANGED <<inputs, history, defaults, char_ids, char_n, pc, err,
                   files, fmt_args>>

FormatCDefinition ==
    /\ pc = "emit"
    /\ ~fmt_ret.def.called
    /\ fmt_ret' = [fmt_ret EXCEPT !.def =
            Called(format_c_definition(fmt_args.dflt, fmt_args.char_id))]
    /\ UNCHANGED <<inputs, history, defaults, char_ids, char_n, pc, err,
                   files, fmt_args>>

FormatCAssignment ==
    /\ pc = "emit"
    /\ ~fmt_ret.assign.called
    /\ fmt_ret' = [fmt_ret EXCEPT !.assign =
            Called(format_c_assignment(fmt_args.dflt, fmt_args.char_id))]
    /\ UNCHANGED <<inputs, history, defaults, char_ids, char_n, pc, err,
                   files, fmt_args>>

NextEmit == FormatHDeclaration \/ FormatCDefinition \/ FormatCAssignment

SpecEmit == InitEmit /\ [][NextEmit]_vars

(***************************************************************************)
(* Properties of the formatters.                                           *)
(***************************************************************************)
CTypeName ==
    [BOOL |-> "bool", CHAR |-> "char", INT8 |-> "int8_t",
     INT16 |-> "int16_t", INT32 |-> "int32_t", INT64 |-> "int64_t",
     INTPTR |-> "intptr_t", UINT8 |-> "uint8_t", UINT16 |-> "uint16_t",
     UINT32 |-> "uint32_t", UINT64 |-> "uint64_t", UINTPTR |-> "uintptr_t",
     FLOAT |-> "float", DOUBLE |-> "double"]

SupportedSuffix == DOMAIN CTypeName \cup {"CHAR_ARRAY"}

ProfileTesting(p) ==
    /\ ~p.none
    /\ "TESTING" \in DOMAIN p.d
    /\ p.d["TESTING"].s \in {"1", "2"}

ProfileNotTesting(p) ==
    /\ ~p.none
    /\ \/ "TESTING" \notin DOMAIN p.d
       \/ p.d["TESTING"].s \in {"", "0"}

\* The profile's entry when the key exists and is non-empty, else DEFAULT.
ResolvedValue(o, p) ==
    IF ~p.none /\ o.NAME \in DOMAIN p.d /\ p.d[o.NAME].s # ""
    THEN p.d[o.NAME].s
    ELSE o.DEFAULT

NoTemplates(o) == o.H.none /\ o.C.none /\ o.TEST_ASSIGN.none

IsTyped(decl, base) ==
    Len(decl) = 2 /\ decl[1] = base /\ decl[2] \in SupportedSuffix

Returned(r, text) == r.called => (r.err = "" /\ r.text = text)

AllCalled == fmt_ret.decl.called /\ fmt_ret.def.called /\ fmt_ret.assign.called

\* C1: an OPTION declared MACRO_<T> without custom templates is a #define
\* with no definition and no reset assignment in a profile that is not
\* testing, and an extern variable with a definition and a reset assignment
\* in a testing profile (non-array T), with the profile's non-empty entry
\* or else the DEFAULT as value.
C1_MacroTypedOption ==
    LET o == fmt_args.dflt
        p == fmt_args.char_id
        V == ResolvedValue(o, p)
    IN  (pc = "emit" /\ o.TYPE = <<"OPTION">> /\ IsTyped(o.DECL, "MACRO")
         /\ NoTemplates(o))
        => /\ ProfileNotTesting(p) =>
                /\ Returned(fmt_ret.decl,
                            <<"#define", " ", o.NAME, " ", V>>)
                /\ Returned(fmt_ret.def, <<>>)
                /\ Returned(fmt_ret.assign, <<>>)
           /\ (ProfileTesting(p) /\ o.DECL[2] # "CHAR_ARRAY") =>
                LET C == CTypeName[o.DECL[2]]
                IN  /\ Returned(fmt_ret.decl,
                                <<"extern", " ", C, " ", o.NAME, ";">>)
                    /\ Returned(fmt_ret.def,
                                <<C, " ", o.NAME, " ", "=", " ", V, ";">>)
                    /\ Returned(fmt_ret.assign,
                                <<o.NAME, " ", "=", " ", V, ";">>)

C1_Witness ==
    /\ pc = "emit"
    /\ fmt_args.dflt.TYPE = <<"OPTION">>
    /\ fmt_args.dflt.DECL = <<"MACRO", "UINT8">>
    /\ NoTemplates(fmt_args.dflt)
    /\ ProfileTesting(fmt_args.char_id)
    /\ "FOO" \in DOMAIN fmt_args.char_id.d
    /\ fmt_args.char_id.d["FOO"] = Str("7")
    /\ AllCalled
    /\ fmt_ret.decl.text = <<"extern", " ", "uint8_t", " ", "FOO", ";">>
    /\ fmt_ret.def.text = <<"uint8_t", " ", "FOO", " ", "=", " ", "7", ";">>
    /\ fmt_ret.assign.text = <<"FOO", " ", "=", " ", "7", ";">>

\* C2 as stated: an option of TYPE VALUE, whatever its DECL, is declared
\* #define <NAME> <DEFAULT> and has no reset assignment in a testing
\* profile (taken here on the options without custom templates whose DECL
\* is not CUSTOM).
C2_ValueAnyDecl ==
    LET o == fmt_args.dflt
        p == fmt_args.char_id
    IN  (pc = "emit" /\ o.TYPE = <<"VALUE">> /\ NoTemplates(o)
         /\ o.DECL # <<"CUSTOM">> /\ ~p.none)
        => /\ (fmt_ret.decl.called /\ fmt_ret.decl.err = "") =>
                fmt_ret.decl.text = <<"#define", " ", o.NAME, " ", o.DEFAULT>>
           /\ (ProfileTesting(p) /\ fmt_ret.assign.called) =>
                fmt_ret.assign.text = <<>>

\* C2 amended: an option of TYPE VALUE declared MACRO or MACRO_<T> without
\* an H template is declared #define <NAME> <DEFAULT> in every profile that
\* has no key for it, and an option of TYPE VALUE whose DECL is not VAR_<T>
\* and that has no TEST_ASSIGN template has no reset assignment.
C2_ValueMacro ==
    LET o == fmt_args.dflt
        p == fmt_args.char_id
    IN  (pc = "emit" /\ o.TYPE = <<"VALUE">>)
        => /\ ( /\ o.DECL = <<"MACRO">> \/ IsTyped(o.DECL, "MACRO")
                /\ o.H.none
                /\ ProfileTesting(p) \/ ProfileNotTesting(p)
                /\ o.NAME \notin DOMAIN p.d )
              => Returned(fmt_ret.decl,
                          <<"#define", " ", o.NAME, " ", o.DEFAULT>>)
           /\ (~IsTyped(o.DECL, "VAR") /\ o.TEST_ASSIGN.none /\ ~p.none)
              => (fmt_ret.assign.called => fmt_ret.assign.text = <<>>)

C2_Witness ==
    /\ pc = "emit"
    /\ fmt_args.dflt.TYPE = <<"VALUE">>
    /\ fmt_args.dflt.DECL = <<"MACRO", "UINT8">>
    /\ NoTemplates(fmt_args.dflt)
    /\ ProfileTesting(fmt_args.char_id)
    /\ "FOO" \notin DOMAIN fmt_args.char_id.d
    /\ AllCalled
    /\ fmt_ret.decl.err = ""
    /\ fmt_ret.decl.text = <<"#define", " ", "FOO", " ", "5">>
    /\ fmt_ret.assign.err = ""
    /\ fmt_ret.assign.text = <<>>

\* A template with @NAME@, @VALUE@ and @CONST@ rendered, @CONST@ as const.
RenderConst(code, o, p) ==
    IF code.none THEN <<>>
    ELSE Replace(Replace(Replace(code.text, "@NAME@", o.NAME),
                         "@VALUE@", ResolvedValue(o, p)),
                 "@CONST@", "const")

\* C7 as stated: an option declared CUSTOM never contributes text to the
\* reset body, with or without a TEST_ASSIGN template, and its @CONST@ is
\* always rendered as const.
C7_CustomNeverResets ==
    LET o == fmt_args.dflt
        p == fmt_args.char_id
    IN  (pc = "emit" /\ o.DECL = <<"CUSTOM">> /\ ~p.none)
        => /\ (ProfileTesting(p) /\ fmt_ret.assign.called) =>
                fmt_ret.assign.text = <<>>
           /\ (fmt_ret.decl.called /\ fmt_ret.decl.err = "") =>
                fmt_ret.decl.text = RenderConst(o.H, o, p)
           /\ (fmt_ret.def.called /\ fmt_ret.def.err = "") =>
                fmt_ret.def.text = RenderConst(o.C, o, p)

\* C7 amended: an option declared CUSTOM is never mutable (@CONST@ is
\* always rendered as const in its templates), and what it contributes to
\* the reset body is exactly its rendered TEST_ASSIGN template: no text
\* when it defines none.
C7_CustomConst ==
    LET o == fmt_args.dflt
        p == fmt_args.char_id
    IN  (pc = "emit" /\ o.DECL = <<"CUSTOM">> /\ ~p.none)
        => /\ (fmt_ret.assign.called /\ fmt_ret.assign.err = "") =>
                fmt_ret.assign.text = RenderConst(o.TEST_ASSIGN, o, p)
           /\ (fmt_ret.decl.called /\ fmt_ret.decl.err = "") =>
                fmt_ret.decl.text = RenderConst(o.H, o, p)
           /\ (fmt_ret.def.called /\ fmt_ret.def.err = "") =>
                fmt_ret.def.text = RenderConst(o.C, o, p)

C7_Witness ==
    /\ pc = "emit"
    /\ fmt_args.dflt.TYPE = <<"OPTION">>
    /\ fmt_args.dflt.DECL = <<"CUSTOM">>
    /\ fmt_args.dflt.H = Code(HTemplate)
    /\ fmt_args.dflt.TEST_ASSIGN.none
    /\ ProfileTesting(fmt_args.char_id)
    /\ AllCalled
    /\ fmt_ret.decl.text =
          <<"extern", " ", "const", " ", "int", " ", "FOO", ";">>
    /\ fmt_ret.assign.err = ""
    /\ fmt_ret.assign.text = <<>>

Unsupported(decl) ==
    /\ decl # <<"MACRO">>
    /\ decl # <<"CUSTOM">>
    /\ ~(\E base \in {"MACRO", "CONST", "VAR"} : IsTyped(decl, base))

\* C8: every artifact of an option whose DECL is unsupported raises a
\* fatal error and emits no text, with or without custom templates.
C8_UnsupportedDeclRaises ==
    LET o == fmt_args.dflt
    IN  (pc = "emit" /\ Unsupported(o.DECL))
        => \A f \in {"decl", "def", "assign"} :
              fmt_ret[f].called =>
                  (fmt_ret[f].err # "" /\ fmt_ret[f].text = <<>>)

(***************************************************************************)
(* read_char_ids: the characterization table, resolved one record of the   *)
(* YAML list per loop iteration.                                           *)
(***************************************************************************)
\* The keys of the ordered dict char_ids.
Keys(table) == {table[i]["CHAR_ID"].s : i \in 1..Len(table)}

\* char_ids[base]; line 159 asserts the key before it is read.
Lookup(table, base) ==
    IF base \in Keys(table)
    THEN table[CHOOSE i \in 1..Len(table) : table[i]["CHAR_ID"].s = base]
    ELSE [x \in {} |-> None]

\* Lines 128-131: add missing optional fields.
AddMissingOptional(x) ==
    Update([DESCRIPTION |-> None, BASED_ON |-> None], x)

\* Lines 147-152: BASED_ON as a list.
BasedOnList(based_on) ==
    IF based_on.k = "str" THEN <<based_on.s>> ELSE based_on.l

\* MergeBases with the bases applied last to first: the first listed wins.
RECURSIVE MergeBases_first_wins(_, _, _)
MergeBases_first_wins(xx, based_on, table) ==
    IF based_on = <<>> THEN xx
    ELSE Update(MergeBases_first_wins(xx, Tail(based_on), table),
                Lookup(table, Head(based_on)))

\* Lines 154-163: xx.update(char_ids[base]) for each base in listed order.
RECURSIVE MergeBases(_, _, _)
MergeBases(xx, based_on, table) ==
    IF based_on = <<>> THEN xx
    ELSE MergeBases(Update(xx, Lookup(table, Head(based_on))),
                    Tail(based_on), table)

\* The assertion of a base that is declared anywhere in the YAML list.
BaseUndefined_any_declared(based_on, table) ==
    \E i \in 1..Len(based_on) :
        based_on[i] \notin {data[j]["CHAR_ID"].s : j \in 1..Len(data)}

\* Lines 159-162: TRUE iff the assertion on some base fails.
BaseUndefined(based_on, table) ==
    \E i \in 1..Len(based_on) : based_on[i] \notin Keys(table)

\* Lines 123-166: the body of the loop on one record x.
ResolveOne(x0, table) ==
    IF ~({"CHAR_ID", "BRIEF"} \subseteq DOMAIN x0)
    THEN [err |-> "AssertionError", xx |-> x0]
    ELSE
    LET x == AddMissingOptional(x0)
        name == x["CHAR_ID"].s
        based_on == x["BASED_ON"]
    IN  IF name \in Keys(table)
        THEN [err |-> "AssertionError", xx |-> x]
        ELSE IF based_on = None
        THEN [err |-> "", xx |-> x]
        ELSE IF BaseUndefined(BasedOnList(based_on), table)
        THEN [err |-> "AssertionError", xx |-> x]
        ELSE [err |-> "",
              xx |-> Update(MergeBases([f \in {} |-> None],
                                       BasedOnList(based_on), table), x)]

Brief(id) == [CHAR_ID |-> Str(id), BRIEF |-> Str("brief")]

\* The records of the characterization YAML used as input.
RawProfiles ==
    { Update(Brief("A"), [X |-> Str("1"), DESCRIPTION |-> Str("dA"),
                          TESTING |-> Str("1")]),
      Update(Brief("A"), [Y |-> Str("3")]),
      Update(Brief("B"), [X |-> Str("2"), Y |-> Str("2"),
                          DESCRIPTION |-> Str("dB")]),
      Update(Brief("B"), [BASED_ON |-> Str("A"), Y |-> Str("2")]),
      Update(Brief("B"), [BASED_ON |-> Str("A"), X |-> Str("9"),
                          Y |-> Str("2"), TESTING |-> Str("0")]),
      Update(Brief("B"), [BASED_ON |-> Str("C")]),
      Update(Brief("C"), [BASED_ON |-> List(<<"A", "B">>)]),
      Update(Brief("C"), [BASED_ON |-> List(<<"B", "A">>), X |-> Str("")]),
      Update(Brief("C"), [BASED_ON |-> Str("C")]),
      Update(Brief("C"), [BASED_ON |-> List(<<>>), X |-> Str("3")]),
      Update(Brief("C"), [BASED_ON |-> List(<<"B">>),
                          DESCRIPTION |-> Str("dC")]),
      [CHAR_ID |-> Str("A")] }

RECURSIVE SeqsUpTo(_, _)
SeqsUpTo(S, n) ==
    IF n = 0 THEN {<<>>}
    ELSE LET shorter == SeqsUpTo(S, n - 1)
         IN  shorter \cup {Append(q, e) : q \in shorter, e \in S}

InitResolve ==
    /\ defaults_data = <<>>
    /\ defaults = <<>>
    /\ char_n = 0
    /\ data \in SeqsUpTo(RawProfiles, MaxProfiles)
    /\ char_ids = <<>>
    /\ pc = "read_char_ids"
    /\ err = ""
    /\ files = [f \in {} |-> <<>>]
    /\ run = 1
    /\ prev_files = [f \in {} |-> <<>>]
    /\ prev_data = <<>>
    /\ fmt_args = [dflt |-> <<>>, char_id |-> NoCharId]
    /\ fmt_ret = [decl |-> NotCalled, def |-> NotCalled, assign |-> NotCalled]

\* One iteration of the loop of read_char_ids that adds a char ID.
ReadCharId ==
    /\ pc = "read_char_ids"
    /\ Len(char_ids) < Len(data)
    /\ LET r == ResolveOne(data[Len(char_ids) + 1], char_ids)
       IN  /\ r.err = ""
           /\ char_ids' = Append(char_ids, r.xx)
    /\ UNCHANGED <<inputs, history, formatter, defaults, char_n, pc, err,
                   files>>

\* One iteration of the loop of read_char_ids whose assertion fails.
ReadCharIdFails ==
    /\ pc = "read_char_ids"
    /\ Len(char_ids) < Len(data)
    /\ LET r == ResolveOne(data[Len(char_ids) + 1], char_ids)
       IN  /\ r.err # ""
           /\ err' = r.err
           /\ pc' = "error"
    /\ UNCHANGED <<inputs, history, formatter, defaults, char_ids, char_n,
                   files>>

\* read_char_ids returns the table.
ReadCharIdsReturn ==
    /\ pc = "read_char_ids"
    /\ Len(char_ids) = Len(data)
    /\ pc' = "write_characterization_header"
    /\ UNCHANGED <<inputs, history, formatter, defaults, char_ids, char_n,
                   err, files>>

NextResolve == ReadCharId \/ ReadCharIdFails \/ ReadCharIdsReturn

SpecResolve == InitResolve /\ [][NextResolve]_vars

(***************************************************************************)
(* Properties of the profile resolution.                                   *)
(***************************************************************************)
OptionKeys == {"X", "Y"}

HasBasedOn(raw) == "BASED_ON" \in DOMAIN raw /\ raw["BASED_ON"] # None

\* The positions of the listed parents whose resolved fields have key f.
ParentsWith(L, f) ==
    {i \in 1..Len(L) : f \in DOMAIN Lookup(char_ids, L[i])}

Last(S) == CHOOSE i \in S : \A j \in S : j <= i

\* Field f of resolved profile k is the one inherited from the last listed
\* parent that has it, and is absent when no parent has it.
Inherits(k, f) ==
    LET L == BasedOnList(data[k]["BASED_ON"])
        having == ParentsWith(L, f)
    IN  IF having = {}
        THEN f \notin DOMAIN char_ids[k]
        ELSE /\ f \in DOMAIN char_ids[k]
             /\ char_ids[k][f] = Lookup(char_ids, L[Last(having)])[f]

\* C4: in a profile resolved with BASED_ON, every option key has the
\* child's own entry when the child specifies it, and otherwise the entry
\* of the last listed parent that has it.
C4_BasedOnOverrides ==
    \A k \in 1..Len(char_ids) :
        HasBasedOn(data[k]) =>
            \A f \in OptionKeys :
                IF f \in DOMAIN data[k]
                THEN /\ f \in DOMAIN char_ids[k]
                     /\ char_ids[k][f] = data[k][f]
                ELSE Inherits(k, f)

C4_Witness ==
    /\ Len(char_ids) = 3
    /\ "X" \in DOMAIN char_ids[1] /\ char_ids[1]["X"] = Str("1")
    /\ "X" \in DOMAIN char_ids[2] /\ char_ids[2]["X"] = Str("9")
    /\ HasBasedOn(data[2]) /\ data[2]["BASED_ON"] = Str("A")
    /\ char_ids[2]["Y"] = Str("2")
    /\ HasBasedOn(data[3]) /\ data[3]["BASED_ON"] = List(<<"A", "B">>)
    /\ "X" \notin DOMAIN data[3]
    /\ char_ids[3]["X"] = Str("9")
    /\ char_ids[3]["Y"] = Str("2")

\* C5: in a profile resolved with BASED_ON, every field that the profile's
\* own record does not specify (DESCRIPTION and TESTING included) keeps the
\* value inherited from its merged parents.
C5_InheritedPreserved ==
    \A k \in 1..Len(char_ids) :
        HasBasedOn(data[k]) =>
            \A f \in (OptionKeys \cup {"DESCRIPTION", "TESTING"})
                     \ DOMAIN data[k] :
                ParentsWith(BasedOnList(data[k]["BASED_ON"]), f) # {}
                    => Inherits(k, f)

\* C9: profiles are resolved in declaration order, the parents of every
\* resolved profile are resolved before it, and a table with a BASED_ON
\* entry that names no earlier profile ends in an error.
C9_ParentsDeclaredBefore ==
    /\ \A k \in 1..Len(char_ids) :
          /\ char_ids[k]["CHAR_ID"] = data[k]["CHAR_ID"]
          /\ HasBasedOn(data[k]) =>
                LET L == BasedOnList(data[k]["BASED_ON"])
                IN  \A i \in 1..Len(L) :
                        \E j \in 1..(k - 1) : char_ids[j]["CHAR_ID"].s = L[i]
    /\ ( /\ pc # "read_char_ids"
         /\ \E k \in 1..Len(data) :
               /\ HasBasedOn(data[k])
               /\ LET L == BasedOnList(data[k]["BASED_ON"])
                  IN  \E i \in 1..Len(L) :
                          \A j \in 1..(k - 1) : data[j]["CHAR_ID"].s # L[i] )
       => (pc = "error" /\ err = "AssertionError")

C9_Witness ==
    /\ pc = "error"
    /\ Len(data) = 3
    /\ Len(char_ids) = 1
    /\ data[2]["CHAR_ID"] = Str("B")
    /\ HasBasedOn(data[2]) /\ data[2]["BASED_ON"] = Str("C")
    /\ data[3]["CHAR_ID"] = Str("C")

(***************************************************************************)
(* Text formatting: clean_code, apply_indent, the comments.                *)
(***************************************************************************)
NL == "\n"

\* [ \t]
IsBlank(t) == t \in {" ", "    "}

\* \s
IsSpace(t) == IsBlank(t) \/ t = NL

Front(t) == SubSeq(t, 1, Len(t) - 1)

\* str.lstrip() and str.rstrip().
LStrip(t) ==
    LET Keep(n) == \E m \in 1..n : ~IsSpace(t[m])
    IN  Filter(t, Keep)

RStrip(t) ==
    LET Keep(n) == \E m \in n..Len(t) : ~IsSpace(t[m])
    IN  Filter(t, Keep)

Drop(t, n) == SubSeq(t, n + 1, Len(t))

\* The first position after n that holds no line feed, Len(t) + 1 if none.
AfterLineFeeds(t, n) ==
    IF \A m \in (n + 1)..Len(t) : t[m] = NL THEN Len(t) + 1
    ELSE CHOOSE m \in (n + 1)..Len(t) :
             t[m] # NL /\ \A q \in (n + 1)..(m - 1) : t[q] = NL

\* The last position before n that holds no line feed, 0 if none.
BeforeLineFeeds(t, n) ==
    IF \A m \in 1..(n - 1) : t[m] = NL THEN 0
    ELSE CHOOSE m \in 1..(n - 1) :
             t[m] # NL /\ \A q \in (m + 1)..(n - 1) : t[q] = NL

\* re.sub(r"[ \t]+$", "", code, flags=re.MULTILINE)
RemoveTrailingBlanks(t) ==
    LET Trailing(n) ==
            /\ IsBlank(t[n])
            /\ \A m \in n..Len(t) :
                  IsBlank(t[m]) \/ \E q \in n..m : t[q] = NL
        Keep(n) == ~Trailing(n)
    IN  Filter(t, Keep)

\* re.sub(r"\n\n+}", "\n}", code): of two or more line feeds before a
\* closing brace only the last is kept.
CollapseBeforeBrace(t) ==
    LET Dropped(n) ==
            /\ t[n] = NL
            /\ n < Len(t) /\ t[n + 1] = NL
            /\ AfterLineFeeds(t, n) <= Len(t)
            /\ t[AfterLineFeeds(t, n)] = "}"
        Keep(n) == ~Dropped(n)
    IN  Filter(t, Keep)

\* re.sub(r"{\n\n+", "{\n", code): of two or more line feeds after an
\* opening brace only the first is kept.
CollapseAfterBrace(t) ==
    LET Dropped(n) ==
            /\ t[n] = NL
            /\ n > 1 /\ t[n - 1] = NL
            /\ BeforeLineFeeds(t, n) >= 1
            /\ t[BeforeLineFeeds(t, n)] = "{"
        Keep(n) == ~Dropped(n)
    IN  Filter(t, Keep)

\* re.sub(r"\n\n\n+", "\n\n", code)
CollapseLineFeeds(t) ==
    LET Dropped(n) ==
            n > 2 /\ t[n] = NL /\ t[n - 1] = NL /\ t[n - 2] = NL
        Keep(n) == ~Dropped(n)
    IN  Filter(t, Keep)

clean_code(code) ==
    CollapseLineFeeds(
        CollapseAfterBrace(
            CollapseBeforeBrace(
                RemoveTrailingBlanks(LStrip(RStrip(code)) \o <<NL>>))))

\* code.split("\n")
SplitLines(t) ==
    LET feeds == {n \in 1..Len(t) : t[n] = NL}
        Feed(k) == IF k = 0 THEN 0
                   ELSE IF k > Cardinality(feeds) THEN Len(t) + 1
                   ELSE CHOOSE n \in feeds :
                            Cardinality({m \in feeds : m < n}) = k - 1
    IN  [k \in 1..(Cardinality(feeds) + 1) |->
            SubSeq(t, Feed(k - 1) + 1, Feed(k) - 1)]

\* sep.join(lines)
Join(sep, lines) ==
    Flatten([k \in 1..Len(lines) |->
                IF k = 1 THEN lines[k] ELSE sep \o lines[k]])

\* " " * indent, for the indents the generator uses (0 and 4).
Indent(indent) == IF indent = 0 THEN <<>> ELSE <<"    ">>

apply_indent(code, indent) ==
    Indent(indent) \o Join(<<NL>> \o Indent(indent), SplitLines(code))

format_comment(comment, indent) ==
    Join(<<NL>> \o Indent(indent) \o <<" ", "*", " ">>,
         <<<<>>>> \o SplitLines(RStrip(comment)))

\* The text of a string held as one token.
TextOf(s) == IF s = "" THEN <<>> ELSE <<s>>

format_brief_descr_comment(brief, descr, mid_comment) ==
    LET open == IF mid_comment THEN <<>> ELSE <<"/**", " ">>
    IN  IF descr = None
        THEN open \o <<"@brief", " ">> \o TextOf(brief)
             \o (IF mid_comment THEN <<>> ELSE <<" ", "*/">>)
        ELSE open \o <<"@brief", " ">> \o TextOf(brief)
             \o format_comment(<<NL>> \o TextOf(descr.s), 0)
             \o (IF mid_comment THEN <<>> ELSE <<NL, " ", "*/">>)

\* The backquotes around TESTING in the source are left out of the token.
testing_reset_toggles_decl ==
    <<"/** @brief Reset toggles to the initialization values.", NL,
      " *", NL,
      " * Call this function in the setup of a test suite to start every", NL,
      " * test with consistent values.", NL,
      " *", NL,
      " * This function is available only when testing is enabled (when", NL,
      " * TESTING is defined as 1).", NL,
      " */", NL,
      "void testing_reset_toggles(void);", NL>>

(***************************************************************************)
(* The writers.  A writer returns the text it writes, or raises.           *)
(***************************************************************************)
\* str.lower() and str.upper() on the char IDs of the model.
Lower(s) == CASE s = "A" -> "a" [] s = "B" -> "b" [] s = "C" -> "c"
              [] OTHER -> s
Upper(s) == CASE s = "a" -> "A" [] s = "b" -> "B" [] s = "c" -> "C"
              [] OTHER -> s

\* The calls of format on every option of the table, in table order.
Formatted(format(_, _), table, char_id) ==
    [n \in 1..Len(table) |-> format(table[n], char_id)]

\* The exception of the first call that raises, "" if none does.
FirstError(results) ==
    IF \A n \in 1..Len(results) : results[n].err = "" THEN ""
    ELSE results[CHOOSE n \in 1..Len(results) :
                     /\ results[n].err # ""
                     /\ \A m \in 1..(n - 1) : results[m].err = ""].err

\* The number written for the char ID that enumerate gives index num.
CharIdNumber_zero_based(num) == num

\* Lines 258-264: num + 1.
CharIdNumber(num) == num + 1

\* Lines 252-271.
code_char_ids(table) ==
    LET num == IF table = <<>> THEN -1 ELSE Len(table) - 1
    IN  <<"/* List of CHAR_IDs. */", NL>>
        \o Flatten([n \in 1..Len(table) |->
              <<"#define", " ", table[n]["CHAR_ID"].s, " ",
                ToString(CharIdNumber(n - 1)), " ", "/**<", " ", "@brief",
                " ", table[n]["BRIEF"].s, " ", "*/", NL>>])
        \o <<NL, "#define", " ", "NUM_CHAR_IDS", " ",
             ToString(CharIdNumber(num)), " ",
             "/**< @brief Number of char IDs. */", NL, NL,
             "/* Validate CHAR_ID range. */", NL,
             "#if (CHAR_ID < 1 || CHAR_ID > NUM_CHAR_IDS)", NL,
             "    ", "#error \"Macro CHAR_ID is not in the valid range.\"", NL,
             "#endif", NL, NL>>

\* Lines 275-285 and 345-354: the inclusions, for extension ".h" or ".c".
code_char_includes(table, ext) ==
    <<"#ifdef DOXYGEN", NL,
      "    ", "/* Nothing to include for Doxygen. */", NL>>
    \o Flatten([n \in 1..Len(table) |->
          <<"#elif (CHAR_ID == ", table[n]["CHAR_ID"].s, ")", NL,
            "    ", "#include \"characterizations/",
            Lower(table[n]["CHAR_ID"].s), ext, "\"", NL>>])
    \o <<"#endif", NL>>

\* Lines 171-299; the literal texts code_begin and code_end are one token.
write_characterization_header(dflts, table) ==
    LET decls == Formatted(format_h_declaration, dflts, NoCharId)
        code_option_doc ==
            <<"/* Options documentation. */", NL, NL, "#ifdef DOXYGEN", NL, NL>>
            \o Flatten([n \in 1..Len(dflts) |->
                  apply_indent(format_brief_descr_comment(
                      dflts[n].BRIEF, dflts[n].DESCRIPTION, FALSE), 4)
                  \o <<NL>> \o apply_indent(decls[n].text, 4) \o <<NL, NL>>])
            \o apply_indent(testing_reset_toggles_decl, 4)
            \o <<NL, "#endif /* DOXYGEN */", NL, NL>>
        code ==
            <<"<toggle.h code_begin>", NL, NL>>
            \o code_option_doc
            \o code_char_ids(table)
            \o <<"/* Include the characterization. */", NL>>
            \o code_char_includes(table, ".h") \o <<NL>>
            \o <<"<toggle.h code_end>", NL>>
    IN  IF FirstError(decls) # "" THEN Raise(FirstError(decls))
        ELSE Ok(clean_code(code))

\* Lines 327-362.
write_characterization_source(dflts, table) ==
    Ok(clean_code(<<"#include \"toggle.h\"", NL, NL>>
                  \o code_char_includes(table, ".c")))

\* Lines 422-472.
write_char_id_header(dflts, char_id) ==
    LET file_name == Lower(char_id["CHAR_ID"].s) \o ".h"
        header_guard ==
            "CHARACTERIZATIONS_" \o Upper(char_id["CHAR_ID"].s) \o "_H"
        code_begin ==
            <<"#ifndef", " ", header_guard, NL,
              "#define", " ", header_guard, NL, NL,
              "/** @file", " ", file_name, NL, " ", "*", " ">>
            \o format_brief_descr_comment(
                   char_id["BRIEF"].s, char_id["DESCRIPTION"], TRUE)
            \o <<NL, " ", "*/", NL, NL>>
        code_end == <<NL, "#endif /* ", header_guard, " */", NL>>
        decls == Formatted(format_h_declaration, dflts, CharId(char_id))
        code_option ==
            Flatten([n \in 1..Len(dflts) |->
                format_brief_descr_comment(
                    dflts[n].BRIEF, dflts[n].DESCRIPTION, FALSE)
                \o <<NL>> \o decls[n].text \o <<NL, NL>>])
    IN  IF FirstError(decls) # "" THEN Raise(FirstError(decls))
        ELSE IF is_testing_raises(CharId(char_id)) THEN Raise("ValueError")
        ELSE Ok(clean_code(
                 code_begin \o code_option
                 \o (IF is_testing(CharId(char_id))
                     THEN apply_indent(testing_reset_toggles_decl, 0)
                     ELSE <<>>)
                 \o code_end))

\* The group of re.findall(r"TOP_C: (.*?)(?:\s*\*\/)?$") on one line: the
\* text after the first "TOP_C: ", less a closing "*/" and the blanks
\* before it; no match gives the empty set.
TopCOfLine(line) ==
    LET at == {n \in 1..(Len(line) - 1) :
                  line[n] = "TOP_C:" /\ line[n + 1] = " "}
    IN  IF at = {} THEN {}
        ELSE LET n == CHOOSE n \in at : \A m \in at : n <= m
                 rest == Drop(line, n + 1)
             IN  IF rest # <<>> /\ rest[Len(rest)] = "*/"
                 THEN {RStrip(Front(rest))}
                 ELSE {rest}

\* Lines 406-409: set(found_headers).
FoundHeaders(code_option) ==
    LET lines == SplitLines(code_option)
    IN  UNION {TopCOfLine(lines[n]) : n \in 1..Len(lines)}

\* The orders list(set(...)) can give.
RECURSIVE Orders(_)
Orders(S) ==
    IF S = {} THEN {<<>>}
    ELSE UNION {{<<e>> \o q : q \in Orders(S \ {e})} : e \in S}

\* CodeOption with the assignments in the reverse of the options' order.
CodeOption_reversed_assignments(dflts, char_id) ==
    LET defs == Formatted(format_c_definition, dflts, CharId(char_id))
        assigns == Formatted(format_c_assignment, dflts, CharId(char_id))
    IN  Flatten([n \in 1..Len(dflts) |-> defs[n].text \o <<NL>>])
        \o (IF is_testing(CharId(char_id))
            THEN <<NL, "void testing_reset_toggles(void)", NL, "{", NL>>
                 \o Flatten([n \in 1..Len(dflts) |->
                        apply_indent(assigns[Len(dflts) + 1 - n].text, 4)
                        \o <<NL>>])
                 \o <<"}", NL>>
            ELSE <<>>)

\* Lines 380-400: the definitions and the testing function.
CodeOption(dflts, char_id) ==
    LET defs == Formatted(format_c_definition, dflts, CharId(char_id))
        assigns == Formatted(format_c_assignment, dflts, CharId(char_id))
    IN  Flatten([n \in 1..Len(dflts) |-> defs[n].text \o <<NL>>])
        \o (IF is_testing(CharId(char_id))
            THEN <<NL, "void testing_reset_toggles(void)", NL, "{", NL>>
                 \o Flatten([n \in 1..Len(dflts) |->
                        apply_indent(assigns[n].text, 4) \o <<NL>>])
                 \o <<"}", NL>>
            ELSE <<>>)

\* The exception write_char_id_source raises, "" if none.
CodeOptionError(dflts, char_id) ==
    LET defs == Formatted(format_c_definition, dflts, CharId(char_id))
        assigns == Formatted(format_c_assignment, dflts, CharId(char_id))
    IN  IF FirstError(defs) # "" THEN FirstError(defs)
        ELSE IF is_testing_raises(CharId(char_id)) THEN "ValueError"
        ELSE IF is_testing(CharId(char_id)) THEN FirstError(assigns)
        ELSE ""

\* Lines 365-419, with found_headers in the order found_headers_list.
write_char_id_source(dflts, char_id, found_headers_list) ==
    IF CodeOptionError(dflts, char_id) # ""
    THEN Raise(CodeOptionError(dflts, char_id))
    ELSE Ok(clean_code(Join(<<NL>>, found_headers_list) \o <<NL>>
                       \o CodeOption(dflts, char_id)))

(***************************************************************************)
(* main: read both YAML lists, write the master header and source, then    *)
(* the header and the source of every char ID.                             *)
(***************************************************************************)
\* Lines 88-91: add missing optional fields.
AddMissingOptionalDefaults(x) ==
    Update([DESCRIPTION |-> None, H |-> NoCode, C |-> NoCode,
            TEST_ASSIGN |-> NoCode], x)

\* Lines 83-103: TRUE iff an assertion of read_defaults fails.
read_defaults_raises(list) ==
    \E n \in 1..Len(list) :
        \/ ~({"NAME", "DEFAULT", "TYPE", "DECL", "BRIEF"}
               \subseteq DOMAIN list[n])
        \/ \E m \in 1..(n - 1) :
              "NAME" \in DOMAIN list[m] /\ list[m].NAME = list[n].NAME

\* Lines 71-103.
read_defaults(list) ==
    [n \in 1..Len(list) |-> AddMissingOptionalDefaults(list[n])]

CTemplateTopC ==
    <<"/*", " ", "TOP_C:", " ", "#include <z.h>", " ", "*/", NL>>
    \o CTemplate

Necessary(name, default, type, decl) ==
    [NAME |-> name, DEFAULT |-> default, TYPE |-> type, DECL |-> decl,
     BRIEF |-> "brief"]

\* The records of the defaults YAML used as input.
RawOptions ==
    { Necessary("X", "5", <<"OPTION">>, <<"MACRO", "UINT8">>),
      Necessary("X", "5", <<"VALUE">>, <<"MACRO", "UINT8">>),
      Update(Necessary("Y", "\"abc\"", <<"OPTION">>,
                       <<"MACRO", "CHAR_ARRAY">>),
             [DESCRIPTION |-> Str("descr")]),
      Necessary("Y", "1", <<"OPTION">>, <<"VAR", "INT32">>),
      Necessary("Z", "2", <<"OPTION">>, <<"CONST", "UINT8">>),
      Update(Necessary("Z", "0", <<"OPTION">>, <<"CUSTOM">>),
             [H |-> Code(HTemplate), C |-> Code(CTemplateTopC),
              TEST_ASSIGN |-> Code(TestAssignTemplate)]),
      Necessary("Y", "1", <<"VALUE">>, <<"VAR", "INT32">>),
      Necessary("Z", "0", <<"VALUE">>, <<"BOGUS">>),
      Update(Necessary("Z", "0", <<"VALUE">>, <<"BOGUS">>),
             [H |-> Code(HTemplate)]),
      [NAME |-> "X"] }

\* The records of the characterization YAML used as input of main.
MainProfiles ==
    { Update(Brief("A"), [X |-> Str("1"), DESCRIPTION |-> Str("dA"),
                          TESTING |-> Str("1")]),
      Update(Brief("A"), [Y |-> Str("3")]),
      Update(Brief("B"), [BASED_ON |-> Str("A"), Y |-> Str("2")]),
      Update(Brief("B"), [BASED_ON |-> Str("A"), X |-> Str("9"),
                          Y |-> Str("2"), TESTING |-> Str("0")]),
      Update(Brief("B"), [BASED_ON |-> Str("C")]),
      Update(Brief("C"), [BASED_ON |-> List(<<"A", "B">>)]),
      Update(Brief("C"), [TESTING |-> Str("yes")]) }

NoFiles == [f \in {} |-> <<>>]

\* open(code_output, "w") and fp.write(code).
Write(path, code) == Update(files, [f \in {path} |-> code])

Init ==
    /\ defaults_data \in SeqsUpTo(RawOptions, MaxOptions)
    /\ data \in SeqsUpTo(MainProfiles, MaxCharIds)
    /\ defaults = <<>>
    /\ char_ids = <<>>
    /\ char_n = 0
    /\ pc = "read_defaults"
    /\ err = ""
    /\ files = NoFiles
    /\ run = 1
    /\ prev_files = NoFiles
    /\ prev_data = <<>>
    /\ fmt_args = [dflt |-> <<>>, char_id |-> NoCharId]
    /\ fmt_ret = [decl |-> NotCalled, def |-> NotCalled, assign |-> NotCalled]

\* An exception ends main.
Fails(e) ==
    /\ pc' = "error"
    /\ err' = e
    /\ UNCHANGED <<inputs, history, formatter, defaults, char_ids, char_n,
                   files>>

ReadDefaults ==
    /\ pc = "read_defaults"
    /\ ~read_defaults_raises(defaults_data)
    /\ defaults' = read_defaults(defaults_data)
    /\ pc' = "read_char_ids"
    /\ UNCHANGED <<inputs, history, formatter, char_ids, char_n, err, files>>

ReadDefaultsFails ==
    /\ pc = "read_defaults"
    /\ read_defaults_raises(defaults_data)
    /\ Fails("AssertionError")

WriteCharacterizationHeader ==
    /\ pc = "write_characterization_header"
    /\ LET r == write_characterization_header(defaults, char_ids)
       IN  /\ r.err = ""
           /\ files' = Write("include/toggle.h", r.text)
    /\ pc' = "write_characterization_source"
    /\ UNCHANGED <<inputs, history, formatter, defaults, char_ids, char_n,
                   err>>

WriteCharacterizationHeaderFails ==
    /\ pc = "write_characterization_header"
    /\ LET r == write_characterization_header(defaults, char_ids)
       IN  r.err # "" /\ Fails(r.err)

WriteCharacterizationSource ==
    /\ pc = "write_characterization_source"
    /\ files' = Write("src/toggle.c",
                      write_characterization_source(defaults, char_ids).text)
    /\ pc' = "write_char_id_header"
    /\ char_n' = 1
    /\ UNCHANGED <<inputs, history, formatter, defaults, char_ids, err>>

WriteCharIdHeader ==
    /\ pc = "write_char_id_header"
    /\ char_n <= Len(char_ids)
    /\ LET r == write_char_id_header(defaults, char_ids[char_n])
       IN  /\ r.err = ""
           /\ files' = Write("include/characterizations/"
                             \o Lower(char_ids[char_n]["CHAR_ID"].s) \o ".h",
                             r.text)
    /\ pc' = "write_char_id_source"
    /\ UNCHANGED <<inputs, history, formatter, defaults, char_ids, char_n,
                   err>>

WriteCharIdHeaderFails ==
    /\ pc = "write_char_id_header"
    /\ char_n <= Len(char_ids)
    /\ LET r == write_char_id_header(defaults, char_ids[char_n])
       IN  r.err # "" /\ Fails(r.err)

\* list(set(found_headers)) gives the found headers in any order.
WriteCharIdSource ==
    /\ pc = "write_char_id_source"
    /\ CodeOptionError(defaults, char_ids[char_n]) = ""
    /\ \E found_headers \in
            Orders(FoundHeaders(CodeOption(defaults, char_ids[char_n]))) :
          files' = Write("src/characterizations/"
                         \o Lower(char_ids[char_n]["CHAR_ID"].s) \o ".c",
                         write_char_id_source(defaults, char_ids[char_n],
                                              found_headers).text)
    /\ pc' = "write_char_id_header"
    /\ char_n' = char_n + 1
    /\ UNCHANGED <<inputs, history, formatter, defaults, char_ids, err>>

WriteCharIdSourceFails ==
    /\ pc = "write_char_id_source"
    /\ CodeOptionError(defaults, char_ids[char_n]) # ""
    /\ Fails(CodeOptionError(defaults, char_ids[char_n]))

MainReturns ==
    /\ pc = "write_char_id_header"
    /\ char_n > Len(char_ids)
    /\ pc' = "done"
    /\ UNCHANGED <<inputs, history, formatter, defaults, char_ids, char_n,
                   err, files>>

\* main runs again on the files the last run left, the input unchanged.
RunAgain ==
    /\ pc = "done"
    /\ run < MaxRuns
    /\ run' = run + 1
    /\ prev_files' = files
    /\ prev_data' = data
    /\ defaults' = <<>>
    /\ char_ids' = <<>>
    /\ char_n' = 0
    /\ pc' = "read_defaults"
    /\ UNCHANGED <<inputs, formatter, err, files>>

\* main runs again after a record is appended to char_ids.yaml.
RunAgainWithAppendedCharId ==
    /\ pc = "done"
    /\ run < MaxRuns
    /\ \E x \in MainProfiles : data' = Append(data, x)
    /\ run' = run + 1
    /\ prev_files' = files
    /\ prev_data' = data
    /\ defaults' = <<>>
    /\ char_ids' = <<>>
    /\ char_n' = 0
    /\ pc' = "read_defaults"
    /\ UNCHANGED <<defaults_data, formatter, err, files>>

Next ==
    \/ ReadDefaults
    \/ ReadDefaultsFails
    \/ ReadCharId
    \/ ReadCharIdFails
    \/ ReadCharIdsReturn
    \/ WriteCharacterizationHeader
    \/ WriteCharacterizationHeaderFails
    \/ WriteCharacterizationSource
    \/ WriteCharIdHeader
    \/ WriteCharIdHeaderFails
    \/ WriteCharIdSource
    \/ WriteCharIdSourceFails
    \/ MainReturns
    \/ RunAgain
    \/ RunAgainWithAppendedCharId

Spec == Init /\ [][Next]_vars

(***************************************************************************)
(* Properties of main.                                                     *)
(***************************************************************************)
\* Some record of char_ids.yaml has a key that names an option of TYPE
\* VALUE of defaults.yaml.
ValueOptionOverridden ==
    \E k \in 1..Len(data), n \in 1..Len(defaults_data) :
        /\ {"NAME", "TYPE"} \subseteq DOMAIN defaults_data[n]
        /\ defaults_data[n].TYPE = <<"VALUE">>
        /\ defaults_data[n].NAME \in DOMAIN data[k]

\* C3: when a profile has a key that names an option of TYPE VALUE, main
\* ends in an error, and no output file is written when it is raised.
C3_ValueOverrideWritesNothing ==
    (run = 1 /\ ValueOptionOverridden)
        => /\ pc # "done"
           /\ pc = "error" => DOMAIN files = {}

\* C6: a second run on the unchanged input leaves every output file with
\* the content the first run gave it.
C6_RunsByteIdentical ==
    (run = 2 /\ pc = "done" /\ data = prev_data) => files = prev_files

\* The master header of this run is written.
HeaderWritten ==
    pc \in {"write_characterization_source", "write_char_id_header",
            "write_char_id_source", "done"}

\* The values that text defines name as, in lines "#define <name> <v> ...".
DefinedAs(text, name) ==
    {text[n + 4] : n \in {m \in 1..(Len(text) - 5) :
        /\ m = 1 \/ text[m - 1] = NL
        /\ text[m] = "#define" /\ text[m + 1] = " " /\ text[m + 2] = name
        /\ text[m + 3] = " " /\ text[m + 5] = " "}}

\* The last run appended one record to the char_ids.yaml of the run before.
Appended ==
    /\ run > 1
    /\ Len(data) = Len(prev_data) + 1
    /\ SubSeq(data, 1, Len(prev_data)) = prev_data

\* C10: the master header defines the k-th declared profile as k and
\* NUM_CHAR_IDS as the number of profiles, and a run after a profile is
\* appended defines every earlier profile as the run before did.
C10_CharIdNumbering ==
    HeaderWritten =>
        LET h == files["include/toggle.h"]
        IN  /\ Len(char_ids) = Len(data)
            /\ \A k \in 1..Len(data) :
                  DefinedAs(h, data[k]["CHAR_ID"].s) = {ToString(k)}
            /\ DefinedAs(h, "NUM_CHAR_IDS") = {ToString(Len(data))}
            /\ Appended =>
                  \A k \in 1..Len(prev_data) :
                      DefinedAs(h, prev_data[k]["CHAR_ID"].s)
                      = DefinedAs(prev_files["include/toggle.h"],
                                  prev_data[k]["CHAR_ID"].s)

C10_Witness ==
    /\ pc = "done"
    /\ Appended
    /\ Len(data) = 3
    /\ DefinedAs(prev_files["include/toggle.h"], "NUM_CHAR_IDS") = {"2"}
    /\ DefinedAs(files["include/toggle.h"], "A") = {"1"}
    /\ DefinedAs(files["include/toggle.h"], "B") = {"2"}
    /\ DefinedAs(files["include/toggle.h"], "C") = {"3"}
    /\ DefinedAs(files["include/toggle.h"], "NUM_CHAR_IDS") = {"3"}

\* The path of the source of the k-th profile, written once char_n is past k.
SourcePath(k) ==
    "src/characterizations/" \o Lower(char_ids[k]["CHAR_ID"].s) \o ".c"

SourceWritten(k) == k \in 1..Len(char_ids) /\ k < char_n

\* The text without its blanks and line feeds.
Words(text) ==
    LET Word(t) == ~IsSpace(t)
    IN  SelectSeq(text, Word)

\* Where text starts the definition of testing_reset_toggles.
ResetAt(text) ==
    {n \in 1..Len(text) : text[n] = "void testing_reset_toggles(void)"}

\* The words between the braces of testing_reset_toggles, the function
\* being the last thing of the text.
ResetBody(text) ==
    LET n == CHOOSE n \in ResetAt(text) : TRUE
        w == Words(Drop(text, n))
    IN  IF Len(w) >= 2 /\ w[1] = "{" /\ w[Len(w)] = "}"
        THEN SubSeq(w, 2, Len(w) - 1)
        ELSE <<"no braces">>

\* The words of a TEST_ASSIGN template with the name and the value put in.
TemplateWords(o, p) ==
    LET w == Words(o.TEST_ASSIGN.text)
    IN  [n \in 1..Len(w) |->
            IF w[n] = "@NAME@" THEN o.NAME
            ELSE IF w[n] = "@VALUE@" THEN ResolvedValue(o, p)
            ELSE w[n]]

\* The words of the one assignment of option o: the copy of the array for
\* CHAR_ARRAY, else <NAME> = <value>;
AssignmentWords(o, p) ==
    IF o.DECL[2] = "CHAR_ARRAY"
    THEN <<"{", "/*", "TOP_C:", "#include <string.h>", "*/",
           "const", "char", o.NAME, "_orig[]", "=", ResolvedValue(o, p), ";",
           "strncpy(", o.NAME, ",", o.NAME, "_orig", ",",
           "sizeof(", o.NAME, "));", "}">>
    ELSE <<o.NAME, "=", ResolvedValue(o, p), ";">>

\* TYPE = OPTION and DECL one of MACRO_<T>, CONST_<T>, VAR_<T>.
ClassifiedMutable(o) ==
    /\ o.TYPE = <<"OPTION">>
    /\ \/ IsTyped(o.DECL, "MACRO")
       \/ IsTyped(o.DECL, "CONST")
       \/ IsTyped(o.DECL, "VAR")

\* DECL VAR_<T> whatever the TYPE, or classified mutable.
ResetByDefault(o) == IsTyped(o.DECL, "VAR") \/ ClassifiedMutable(o)

\* The source of the k-th profile has the function iff the profile is
\* testing, and then once, with the words Expected gives for each option,
\* in the options' order, as its body.
ResetFunctionIs(k, Expected(_, _)) ==
    LET text == files[SourcePath(k)]
        p == CharId(char_ids[k])
    IN  /\ (ResetAt(text) # {}) <=> ProfileTesting(p)
        /\ ProfileTesting(p) =>
              /\ Cardinality(ResetAt(text)) = 1
              /\ ResetBody(text)
                 = Flatten([n \in 1..Len(defaults) |->
                               Expected(defaults[n], p)])

\* C11 as stated: the source of every profile has testing_reset_toggles iff
\* the profile's TESTING flag is true, and its body is, in the options'
\* declaration order, exactly one assignment for each option with TYPE
\* OPTION and DECL MACRO_<T>, CONST_<T> or VAR_<T>, and nothing for any
\* other option.
C11_ResetMutableOnly ==
    LET Expected(o, p) ==
            IF ClassifiedMutable(o) THEN AssignmentWords(o, p) ELSE <<>>
    IN  \A k \in 1..Len(char_ids) :
            SourceWritten(k) => ResetFunctionIs(k, Expected)

\* C11: the source of every profile has testing_reset_toggles iff the
\* profile's TESTING flag is true, and its body is, in the options'
\* declaration order: the TEST_ASSIGN template of the option, name and
\* value put in, when it has one; else exactly one assignment when its
\* DECL is VAR_<T>, or its TYPE is OPTION and its DECL MACRO_<T> or
\* CONST_<T>; else nothing.
C11_ResetBody ==
    LET Expected(o, p) ==
            IF ~o.TEST_ASSIGN.none THEN TemplateWords(o, p)
            ELSE IF ResetByDefault(o) THEN AssignmentWords(o, p)
            ELSE <<>>
    IN  \A k \in 1..Len(char_ids) :
            SourceWritten(k) => ResetFunctionIs(k, Expected)

\* Two mutable options, the first overridden, the second an array, in a
\* testing profile, and a profile based on it that switches testing off.
C11_Witness ==
    /\ pc = "done"
    /\ Len(defaults) = 2
    /\ defaults[1].NAME = "X" /\ ClassifiedMutable(defaults[1])
    /\ defaults[2].NAME = "Y" /\ ClassifiedMutable(defaults[2])
    /\ defaults[2].DECL[2] = "CHAR_ARRAY"
    /\ Len(char_ids) = 2
    /\ ProfileTesting(CharId(char_ids[1]))
    /\ ProfileNotTesting(CharId(char_ids[2]))
    /\ ResetBody(files[SourcePath(1)])
       = <<"X", "=", "1", ";">>
         \o AssignmentWords(defaults[2], CharId(char_ids[1]))
    /\ ResetAt(files[SourcePath(2)]) = {}

====
